---- MODULE Spec2Model ----
(***************************************************************************)
(* Incident Response and On-Call Management (src/src/incident_manager.py). *)
(*                                                                         *)
(* The state is the SQLite database (tables incidents and alerts), the     *)
(* wall clock read by datetime.now(), and the outcome of the last          *)
(* IncidentManager call.  Every public method of IncidentManager is one    *)
(* action; a call runs to completion (open, execute, commit, close).       *)
(***************************************************************************)
EXTENDS Integers, Sequences, FiniteSets, TLC

VARIABLES
    incidents,  \* table incidents: id -> row
    alerts,     \* table alerts: id -> row
    clock,      \* datetime.now(), in clock ticks
    weekday,    \* datetime.now().weekday(), 0 = Monday
    calls,      \* number of IncidentManager calls made so far
    hist,       \* history: id -> the (event, author, length written) of the
                \* add_timeline_event calls that returned true, in the order they ended
    pending,    \* add_timeline_event calls that have read the timeline and not yet
                \* written it back: caller -> call
    ret         \* the last call: its name, arguments and result

vars == <<incidents, alerts, clock, weekday, calls, hist, pending, ret>>

---------------------------------------------------------------------------
(* Bounds of the model *)

MaxCalls == 4          \* calls in one run
MaxConcCalls == 5      \* calls in one run with interleaved add_timeline_event calls
MaxClock == 2          \* last clock tick
TicksPerSecond == 2    \* clock ticks in one second
MidnightAt == 2        \* the clock tick at which the next day begins

(* Program constants *)

TEAM == <<"alexa", "alice", "octavia", "aria", "shellfish">>
valid_statuses == <<"new", "investigating", "identified", "monitoring", "resolved">>
DaysPerWeek == 7
SecondsPerMinute == 60

(* Arguments the callers pass *)

IdSpace == {"3f2a9c1e", "b81d07aa"}     \* values of str(uuid.uuid4())[:8], incidents
AlertIdSpace == {"c4e1550b", "0d9a7f32"} \* values of str(uuid.uuid4())[:8], alerts
None == <<>>
Some(x) == <<x>>
CreateArgs == { [title |-> "db down", severity |-> "P1", services |-> Some(<<"api", "db">>)] }
AlertArgs == { [source |-> "monitor-x", message |-> "disk full", severity |-> "P2"] }
AssignArgs == {"bob"}
StatusArgs == {"new", "investigating", "resolved", "bogus"}
AllStatusArgs == {"new", "investigating", "identified", "monitoring", "resolved", "bogus"}
EventArgs == { [event |-> "paged", author |-> "system"],
               [event |-> "rollback", author |-> "alice"] }
SeverityArgs == {None, Some("P1"), Some("P2"), Some("")}
NotesArgs == {"", "rolled back"}
\* callers that run add_timeline_event at the same time (one CLI process each)
Procs == {"p1", "p2", "p3"}

---------------------------------------------------------------------------
(* json.dumps / json.loads of the two encoded columns.  A JSON array is    *)
(* the bracketed sequence of its items; a JSON object is the sequence of   *)
(* its key/value pairs in insertion order.                                 *)

JsonDumpsServices(services) == <<"[">> \o services \o <<"]">>

JsonLoadsServices(text) == SubSeq(text, 2, Len(text) - 1)

JsonDumpsEvent(e) ==
    << <<"timestamp", e.timestamp>>, <<"event", e.event>>, <<"author", e.author>> >>

JsonMember(obj, key) == obj[CHOOSE i \in 1..Len(obj) : obj[i][1] = key][2]

JsonLoadsEvent(obj) ==
    [timestamp |-> JsonMember(obj, "timestamp"),
     event |-> JsonMember(obj, "event"),
     author |-> JsonMember(obj, "author")]

JsonDumpsTimeline(timeline) ==
    <<"[">> \o [i \in 1..Len(timeline) |-> JsonDumpsEvent(timeline[i])] \o <<"]">>

JsonLoadsTimeline(text) ==
    [i \in 1..(Len(text) - 2) |-> JsonLoadsEvent(text[i + 1])]

---------------------------------------------------------------------------
(* Helpers *)

\* mutant of oncall_schedule: days past the end of TEAM get its last member
oncall_schedule_clamped(day_of_week) ==
    TEAM[IF day_of_week >= Len(TEAM) THEN Len(TEAM) ELSE day_of_week + 1]

oncall_schedule(day_of_week) == TEAM[(day_of_week % Len(TEAM)) + 1]

\* strftime('%s', t): whole seconds of a timestamp, NULL for NULL
StrftimeSeconds(t) == IF t = None THEN None ELSE Some(t[1] \div TicksPerSecond)

\* one row of table incidents as the Incident the read operations build
RowToIncident(row) ==
    [id |-> row.id, title |-> row.title, severity |-> row.severity,
     status |-> row.status, assignee |-> row.assignee,
     services |-> JsonLoadsServices(row.services),
     timeline |-> JsonLoadsTimeline(row.timeline),
     created_at |-> row.created_at, resolved_at |-> row.resolved_at,
     postmortem |-> IF row.postmortem = None THEN "" ELSE row.postmortem[1]]

\* mutant of NewIncident: the assignee is the first of TEAM whatever the day
NewIncidentFirstOfTeam(id, title, severity, services, now, day) ==
    [id |-> id, title |-> title, severity |-> severity, status |-> "new",
     assignee |-> TEAM[1],
     services |-> IF services = None \/ services = Some(<<>>) THEN <<>> ELSE services[1],
     timeline |-> <<>>, created_at |-> now, resolved_at |-> None, postmortem |-> ""]

\* the Incident object create_incident builds before the INSERT
NewIncident(id, title, severity, services, now, day) ==
    [id |-> id, title |-> title, severity |-> severity, status |-> "new",
     assignee |-> oncall_schedule(day),
     services |-> IF services = None \/ services = Some(<<>>) THEN <<>> ELSE services[1],
     timeline |-> <<>>, created_at |-> now, resolved_at |-> None, postmortem |-> ""]

\* INSERT INTO incidents (id, ..., created_at): resolved_at and postmortem stay NULL
InsertIncident(table, inc) ==
    [i \in DOMAIN table \cup {inc.id} |->
        IF i = inc.id
        THEN [id |-> inc.id, title |-> inc.title, severity |-> inc.severity,
              status |-> inc.status, assignee |-> inc.assignee,
              services |-> JsonDumpsServices(inc.services),
              timeline |-> JsonDumpsTimeline(inc.timeline),
              created_at |-> inc.created_at, resolved_at |-> None, postmortem |-> None]
        ELSE table[i]]

---------------------------------------------------------------------------
(* The record of the last call *)

NoRet ==
    [op |-> "none", id |-> "", arg |-> "", sev |-> None, raised |-> FALSE,
     ok |-> FALSE, inc |-> None, list |-> <<>>, mttr |-> <<0, 1>>,
     text |-> <<>>, open |-> 0]

Init ==
    /\ incidents = <<>>
    /\ alerts = <<>>
    /\ clock = 0
    /\ weekday = 0
    /\ calls = 0
    /\ hist = <<>>
    /\ pending = <<>>
    /\ ret = NoRet

\* time passes between two calls; the run starts on a Monday, MidnightAt ticks before
\* midnight
Tick ==
    /\ clock < MaxClock
    /\ clock' = clock + 1
    /\ weekday' = IF clock' = MidnightAt THEN (weekday + 1) % DaysPerWeek ELSE weekday
    /\ UNCHANGED <<incidents, alerts, calls, hist, pending, ret>>

\* one more call of the run
Called == calls < MaxCalls /\ calls' = calls + 1

\* mutant of create_incident: INSERT OR REPLACE, a stored row with the id is overwritten
create_incident_replacing(args, id) ==
    LET inc == NewIncident(id, args.title, args.severity, args.services, clock, weekday)
    IN /\ Called
       /\ incidents' = InsertIncident(incidents, inc)
       /\ hist' = [i \in DOMAIN hist \cup {id} |-> IF i = id THEN <<>> ELSE hist[i]]
       /\ ret' = [NoRet EXCEPT !.op = "create_incident", !.id = id, !.inc = Some(inc)]
       /\ UNCHANGED <<alerts, clock, weekday, pending>>

create_incident(args, id) ==
    LET inc == NewIncident(id, args.title, args.severity, args.services, clock, weekday)
    IN /\ Called
       /\ IF id \in DOMAIN incidents
          THEN \* sqlite3.IntegrityError on the PRIMARY KEY: nothing is committed
               \* and conn.close() (line 118) is not reached
               /\ ret' = [NoRet EXCEPT !.op = "create_incident", !.id = id, !.raised = TRUE,
                                       !.open = 1]
               /\ UNCHANGED <<incidents, hist>>
          ELSE /\ incidents' = InsertIncident(incidents, inc)
               /\ hist' = [i \in DOMAIN hist \cup {id} |-> IF i = id THEN <<>> ELSE hist[i]]
               /\ ret' = [NoRet EXCEPT !.op = "create_incident", !.id = id, !.inc = Some(inc)]
       /\ UNCHANGED <<alerts, clock, weekday, pending>>

\* mutant of UpdateColumn: the UPDATE has no WHERE clause
UpdateColumnAllRows(table, incident_id, column, value) ==
    [i \in DOMAIN table |-> [table[i] EXCEPT ![column] = value]]

\* UPDATE incidents SET column = value WHERE id = incident_id
UpdateColumn(table, incident_id, column, value) ==
    [i \in DOMAIN table |->
        IF i = incident_id THEN [table[i] EXCEPT ![column] = value] ELSE table[i]]

\* mutant of RowCount: the UPDATE reports a row also when no row has the id
RowCountAlwaysOne(table, incident_id) == 1

\* cursor.rowcount of an UPDATE ... WHERE id = incident_id
RowCount(table, incident_id) == IF incident_id \in DOMAIN table THEN 1 ELSE 0

assign(incident_id, assignee) ==
    /\ Called
    /\ incidents' = UpdateColumn(incidents, incident_id, "assignee", assignee)
    /\ ret' = [NoRet EXCEPT !.op = "assign", !.id = incident_id, !.arg = assignee,
                            !.ok = RowCount(incidents, incident_id) > 0]
    /\ UNCHANGED <<alerts, clock, weekday, pending, hist>>

\* mutant of IsValidStatus: no status is refused
IsValidStatusAny(status) == TRUE

IsValidStatus(status) == \E i \in 1..Len(valid_statuses) : valid_statuses[i] = status

\* mutant of update_status: a resolved incident keeps its status
update_status_resolved_final(incident_id, status) ==
    /\ Called
    /\ IF ~IsValidStatus(status)
          \/ (incident_id \in DOMAIN incidents /\ incidents[incident_id].status = "resolved")
       THEN /\ ret' = [NoRet EXCEPT !.op = "update_status", !.id = incident_id,
                                    !.arg = status, !.ok = FALSE]
            /\ UNCHANGED incidents
       ELSE /\ incidents' = UpdateColumn(incidents, incident_id, "status", status)
            /\ ret' = [NoRet EXCEPT !.op = "update_status", !.id = incident_id,
                                    !.arg = status,
                                    !.ok = RowCount(incidents, incident_id) > 0]
    /\ UNCHANGED <<alerts, clock, weekday, pending, hist>>

update_status(incident_id, status) ==
    /\ Called
    /\ IF ~IsValidStatus(status)
       THEN /\ ret' = [NoRet EXCEPT !.op = "update_status", !.id = incident_id,
                                    !.arg = status, !.ok = FALSE]
            /\ UNCHANGED incidents
       ELSE /\ incidents' = UpdateColumn(incidents, incident_id, "status", status)
            /\ ret' = [NoRet EXCEPT !.op = "update_status", !.id = incident_id,
                                    !.arg = status,
                                    !.ok = RowCount(incidents, incident_id) > 0]
    /\ UNCHANGED <<alerts, clock, weekday, pending, hist>>

\* mutant of AppendEvent: event and author change places
AppendEventSwapped(text, now, event, author) ==
    JsonDumpsTimeline(
        Append(JsonLoadsTimeline(text),
               [timestamp |-> now, event |-> author, author |-> event]))

\* mutant of AppendEvent: the new entry replaces the stored timeline
AppendEventOverwrite(text, now, event, author) ==
    JsonDumpsTimeline(<<[timestamp |-> now, event |-> event, author |-> author]>>)

\* the timeline add_timeline_event writes back: the decoded one plus the new entry
AppendEvent(text, now, event, author) ==
    JsonDumpsTimeline(
        Append(JsonLoadsTimeline(text),
               [timestamp |-> now, event |-> event, author |-> author]))

add_timeline_event(incident_id, event, author) ==
    /\ Called
    /\ IF incident_id \notin DOMAIN incidents
       THEN /\ ret' = [NoRet EXCEPT !.op = "add_timeline_event", !.id = incident_id,
                                    !.arg = event, !.ok = FALSE]
            /\ UNCHANGED <<incidents, hist>>
       ELSE /\ incidents' =
                   UpdateColumn(incidents, incident_id, "timeline",
                       AppendEvent(incidents[incident_id].timeline, clock, event, author))
            /\ hist' = [hist EXCEPT ![incident_id] =
                           Append(@, <<event, author,
                                       Len(JsonLoadsTimeline(incidents[incident_id].timeline)) + 1>>)]
            /\ ret' = [NoRet EXCEPT !.op = "add_timeline_event", !.id = incident_id,
                                    !.arg = event, !.ok = TRUE]
    /\ UNCHANGED <<alerts, clock, weekday, pending>>

\* add_timeline_event run by caller p next to other callers, first part (lines 149-153):
\* the SELECT reads the stored timeline; an unknown id returns False at once
add_timeline_event_read(p, incident_id, event, author) ==
    /\ p \notin DOMAIN pending
    /\ calls < MaxConcCalls /\ calls' = calls + 1
    /\ IF incident_id \notin DOMAIN incidents
       THEN /\ ret' = [NoRet EXCEPT !.op = "add_timeline_event", !.id = incident_id,
                                    !.arg = event, !.ok = FALSE]
            /\ UNCHANGED pending
       ELSE /\ pending' = [q \in DOMAIN pending \cup {p} |->
                             IF q = p
                             THEN [id |-> incident_id, event |-> event, author |-> author,
                                   text |-> incidents[incident_id].timeline]
                             ELSE pending[q]]
            /\ UNCHANGED ret
    /\ UNCHANGED <<incidents, alerts, clock, weekday, hist>>

\* mutant of add_timeline_event_write: the timeline is read again when it is written
add_timeline_event_write_reread(p) ==
    /\ p \in DOMAIN pending
    /\ LET c == pending[p]
       IN /\ incidents' = UpdateColumn(incidents, c.id, "timeline",
                              AppendEvent(incidents[c.id].timeline, clock, c.event, c.author))
          /\ hist' = [hist EXCEPT ![c.id] =
                         Append(@, <<c.event, c.author,
                                     Len(JsonLoadsTimeline(incidents[c.id].timeline)) + 1>>)]
          /\ ret' = [NoRet EXCEPT !.op = "add_timeline_event", !.id = c.id,
                                  !.arg = c.event, !.ok = TRUE]
    /\ pending' = [q \in DOMAIN pending \ {p} |-> pending[q]]
    /\ UNCHANGED <<alerts, clock, weekday, calls>>

\* second part (lines 155-166): the entry is appended to the timeline that was read,
\* the UPDATE writes the whole timeline back and the call returns True
add_timeline_event_write(p) ==
    /\ p \in DOMAIN pending
    /\ LET c == pending[p]
       IN /\ incidents' = UpdateColumn(incidents, c.id, "timeline",
                              AppendEvent(c.text, clock, c.event, c.author))
          /\ hist' = [hist EXCEPT ![c.id] =
                         Append(@, <<c.event, c.author,
                                     Len(JsonLoadsTimeline(c.text)) + 1>>)]
          /\ ret' = [NoRet EXCEPT !.op = "add_timeline_event", !.id = c.id,
                                  !.arg = c.event, !.ok = TRUE]
    /\ pending' = [q \in DOMAIN pending \ {p} |-> pending[q]]
    /\ UNCHANGED <<alerts, clock, weekday, calls>>

\* mutant of ResolveRow: resolved_at is not written
ResolveRowStatusOnly(table, incident_id, now) ==
    UpdateColumn(table, incident_id, "status", "resolved")

\* mutant of ResolveRow: created_at is stamped as well
ResolveRowRestamped(table, incident_id, now) ==
    [i \in DOMAIN table |->
        IF i = incident_id
        THEN [table[i] EXCEPT !.status = "resolved", !.resolved_at = Some(now),
                              !.created_at = now]
        ELSE table[i]]

\* UPDATE incidents SET status = 'resolved', resolved_at = now WHERE id = incident_id
ResolveRow(table, incident_id, now) ==
    UpdateColumn(UpdateColumn(table, incident_id, "status", "resolved"),
                 incident_id, "resolved_at", Some(now))

resolve(incident_id, resolution_notes) ==
    /\ Called
    /\ incidents' = ResolveRow(incidents, incident_id, clock)
    /\ ret' = [NoRet EXCEPT !.op = "resolve", !.id = incident_id,
                            !.ok = RowCount(incidents, incident_id) > 0]
    /\ UNCHANGED <<alerts, clock, weekday, pending, hist>>

\* the rows of SELECT ... WHERE status = 'resolved' [AND severity = ?]
ResolvedIds(table, severity) ==
    { i \in DOMAIN table :
        /\ table[i].status = "resolved"
        /\ (severity = None \/ severity = Some("") \/ table[i].severity = severity[1]) }

\* strftime('%s', resolved_at) - strftime('%s', created_at); NULL when resolved_at is NULL
ElapsedSeconds(row) ==
    IF row.resolved_at = None THEN None
    ELSE Some(StrftimeSeconds(row.resolved_at)[1] - StrftimeSeconds(Some(row.created_at))[1])

SumSeconds(table, ids) ==
    LET RECURSIVE Sum(_)
        Sum(S) == IF S = {} THEN 0
                  ELSE LET i == CHOOSE j \in S : TRUE
                       IN ElapsedSeconds(table[i])[1] + Sum(S \ {i})
    IN Sum(ids)

\* AVG(seconds / 60.0) as the fraction <<numerator, denominator>>; AVG skips NULLs and
\* is NULL over no value, and `row[0] or 0` turns NULL and 0.0 into 0
MeanMinutes(table, severity) ==
    LET counted == { i \in ResolvedIds(table, severity) : ElapsedSeconds(table[i]) # None }
        total == SumSeconds(table, counted)
    IN IF counted = {} \/ total = 0 THEN <<0, 1>>
       ELSE <<total, SecondsPerMinute * Cardinality(counted)>>

get_mttr(severity) ==
    /\ Called
    /\ ret' = [NoRet EXCEPT !.op = "get_mttr", !.sev = severity,
                            !.mttr = MeanMinutes(incidents, severity)]
    /\ UNCHANGED <<incidents, alerts, clock, weekday, pending, hist>>

\* mutant of ActiveIds: WHERE resolved_at IS NULL
ActiveIdsNeverResolved(table) == { i \in DOMAIN table : table[i].resolved_at = None }

\* the rows of SELECT ... WHERE status != 'resolved'
ActiveIds(table) == { i \in DOMAIN table : table[i].status # "resolved" }

\* ORDER BY created_at DESC: every order of the ids that sorts them; rows with equal
\* created_at come in an order the query does not fix
OrderByCreatedAtDesc(table, ids) ==
    { s \in [1..Cardinality(ids) -> ids] :
        /\ \A i, j \in DOMAIN s : i # j => s[i] # s[j]
        /\ \A i, j \in DOMAIN s : i < j => table[s[i]].created_at >= table[s[j]].created_at }

get_active_incidents ==
    /\ Called
    /\ \E rows \in OrderByCreatedAtDesc(incidents, ActiveIds(incidents)) :
          ret' = [NoRet EXCEPT !.op = "get_active_incidents",
                               !.list = [k \in DOMAIN rows |-> RowToIncident(incidents[rows[k]])]]
    /\ UNCHANGED <<incidents, alerts, clock, weekday, pending, hist>>

\* mutant of InsertAlert: the alert does not reference the incident
InsertAlertUnlinked(table, alert_id, source, message, severity, now, incident_id) ==
    [a \in DOMAIN table \cup {alert_id} |->
        IF a = alert_id
        THEN [id |-> alert_id, source |-> source, message |-> message,
              severity |-> severity, fired_at |-> now, incident_id |-> alert_id]
        ELSE table[a]]

\* mutant of InsertAlert: the table is replaced by the new row
InsertAlertAlone(table, alert_id, source, message, severity, now, incident_id) ==
    [a \in {alert_id} |->
        [id |-> alert_id, source |-> source, message |-> message, severity |-> severity,
         fired_at |-> now, incident_id |-> incident_id]]

\* INSERT INTO alerts
InsertAlert(table, alert_id, source, message, severity, now, incident_id) ==
    [a \in DOMAIN table \cup {alert_id} |->
        IF a = alert_id
        THEN [id |-> alert_id, source |-> source, message |-> message,
              severity |-> severity, fired_at |-> now, incident_id |-> incident_id]
        ELSE table[a]]

auto_create_from_alert(args, id, alert_id) ==
    LET inc == NewIncident(id, "Alert: " \o args.message, args.severity, None, clock, weekday)
    IN /\ Called
       /\ IF id \in DOMAIN incidents
          THEN \* create_incident raises: nothing is committed
               \* and its conn.close() (line 118) is not reached
               /\ ret' = [NoRet EXCEPT !.op = "auto_create_from_alert", !.id = id,
                                       !.raised = TRUE, !.open = 1]
               /\ UNCHANGED <<incidents, alerts, hist>>
          ELSE /\ incidents' = InsertIncident(incidents, inc)
               /\ hist' = [i \in DOMAIN hist \cup {id} |-> IF i = id THEN <<>> ELSE hist[i]]
               /\ IF alert_id \in DOMAIN alerts
                  THEN \* the alert's INSERT raises after the incident was committed,
                       \* and conn.close() (line 240) is not reached
                       /\ ret' = [NoRet EXCEPT !.op = "auto_create_from_alert", !.id = id,
                                               !.arg = alert_id, !.raised = TRUE,
                                               !.open = 1]
                       /\ UNCHANGED alerts
                  ELSE /\ alerts' = InsertAlert(alerts, alert_id, args.source, args.message,
                                                args.severity, clock, inc.id)
                       /\ ret' = [NoRet EXCEPT !.op = "auto_create_from_alert", !.id = id,
                                               !.arg = alert_id, !.inc = Some(inc)]
       /\ UNCHANGED <<clock, weekday, pending>>

\* fetchone() of SELECT ... FROM incidents WHERE id = incident_id, as an Incident
FetchIncident(table, incident_id) ==
    IF incident_id \in DOMAIN table THEN Some(RowToIncident(table[incident_id])) ELSE None

get_incident(incident_id) ==
    /\ Called
    /\ ret' = [NoRet EXCEPT !.op = "get_incident", !.id = incident_id,
                            !.inc = FetchIncident(incidents, incident_id)]
    /\ UNCHANGED <<incidents, alerts, clock, weekday, pending, hist>>

\* mutant of RenderTimeline: the newest entry comes first
RenderTimelineNewestFirst(timeline) ==
    [k \in 1..Len(timeline) |->
        <<"- **", timeline[Len(timeline) + 1 - k].timestamp, "** (",
          timeline[Len(timeline) + 1 - k].author, "): ",
          timeline[Len(timeline) + 1 - k].event>>]

\* the lines `for event in timeline` adds to the document
RenderTimeline(timeline) ==
    [k \in 1..Len(timeline) |->
        <<"- **", timeline[k].timestamp, "** (", timeline[k].author, "): ",
          timeline[k].event>>]

\* the document generate_postmortem builds from a row, line by line
RenderPostmortem(row) ==
    << <<"# Incident Postmortem">>, <<"">>,
       <<"## Summary">>,
       <<"- **Title:** ", row.title>>,
       <<"- **Severity:** ", row.severity>>,
       <<"- **Assignee:** ", row.assignee>>,
       <<"- **Duration:** ", row.created_at, " to ", row.resolved_at>>, <<"">>,
       <<"## Timeline">> >>
    \o RenderTimeline(JsonLoadsTimeline(row.timeline))
    \o << <<"">>,
          <<"## Root Cause Analysis">>, <<"<!-- Add root cause here -->">>, <<"">>,
          <<"## Impact">>, <<"<!-- Describe impact here -->">>, <<"">>,
          <<"## Action Items">>, <<"<!-- List action items here -->">>, <<"">>,
          <<"## Lessons Learned">>, <<"<!-- Add lessons learned here -->">> >>

generate_postmortem(incident_id) ==
    /\ Called
    /\ ret' = [NoRet EXCEPT !.op = "generate_postmortem", !.id = incident_id,
                            !.text = IF incident_id \in DOMAIN incidents
                                     THEN RenderPostmortem(incidents[incident_id])
                                     ELSE <<>>]
    /\ UNCHANGED <<incidents, alerts, clock, weekday, pending, hist>>

\* the CLI command oncall: IncidentManager.oncall_schedule()
oncall ==
    /\ Called
    /\ ret' = [NoRet EXCEPT !.op = "oncall", !.arg = oncall_schedule(weekday)]
    /\ UNCHANGED <<incidents, alerts, clock, weekday, pending, hist>>

\* str(uuid.uuid4())[:8] for a new row of the table: an id that is stored already (a
\* collision), or one id that is not stored; the ids that are not stored differ in
\* nothing but their characters, so one of them stands for all
uuid4(table, space) ==
    (space \cap DOMAIN table)
      \cup (IF space \subseteq DOMAIN table THEN {}
            ELSE {CHOOSE i \in space \ DOMAIN table : TRUE})

Next ==
    \/ Tick
    \/ \E a \in CreateArgs, id \in uuid4(incidents, IdSpace) : create_incident(a, id)
    \/ \E id \in IdSpace, p \in AssignArgs : assign(id, p)
    \/ \E id \in IdSpace, s \in StatusArgs : update_status(id, s)
    \/ \E id \in IdSpace, e \in EventArgs : add_timeline_event(id, e.event, e.author)
    \/ \E id \in IdSpace, notes \in NotesArgs : resolve(id, notes)
    \/ \E sev \in SeverityArgs : get_mttr(sev)
    \/ get_active_incidents
    \/ \E a \in AlertArgs, id \in uuid4(incidents, IdSpace),
         aid \in uuid4(alerts, AlertIdSpace) : auto_create_from_alert(a, id, aid)
    \/ \E id \in IdSpace : get_incident(id)
    \/ oncall
    \/ \E id \in IdSpace : generate_postmortem(id)

Spec == Init /\ [][Next]_vars

\* the calls that involve the on-call person, started on any day of the week
InitWeek ==
    /\ incidents = <<>>
    /\ alerts = <<>>
    /\ clock = 0
    /\ weekday \in 0..(DaysPerWeek - 1)
    /\ calls = 0
    /\ hist = <<>>
    /\ pending = <<>>
    /\ ret = NoRet

NextWeek ==
    \/ Tick
    \/ \E a \in CreateArgs, id \in uuid4(incidents, IdSpace) : create_incident(a, id)
    \/ \E id \in IdSpace, p \in AssignArgs : assign(id, p)
    \/ \E id \in IdSpace : get_incident(id)
    \/ oncall

SpecWeek == InitWeek /\ [][NextWeek]_vars

\* the calls that write the status, with every status as argument
NextStatus ==
    \/ Tick
    \/ \E a \in CreateArgs, id \in uuid4(incidents, IdSpace) : create_incident(a, id)
    \/ \E id \in IdSpace, st \in AllStatusArgs : update_status(id, st)
    \/ \E id \in IdSpace, notes \in NotesArgs : resolve(id, notes)
    \/ \E id \in IdSpace : get_incident(id)

SpecStatus == Init /\ [][NextStatus]_vars

\* add_timeline_event calls of several callers, interleaved between the read and the
\* write, all within one clock tick
NextConc ==
    \/ \E a \in CreateArgs, id \in uuid4(incidents, IdSpace) : create_incident(a, id)
    \/ \E p \in Procs, id \in IdSpace, ev \in EventArgs :
           add_timeline_event_read(p, id, ev.event, ev.author)
    \/ \E p \in Procs : add_timeline_event_write(p)

SpecConc == Init /\ [][NextConc]_vars

---------------------------------------------------------------------------
(* Properties *)

\* the step is a call of op
CallOf(op) == calls' # calls /\ ret'.op = op

IsPrefix(s, t) == Len(s) <= Len(t) /\ SubSeq(t, 1, Len(s)) = s

Timeline(table, i) == JsonLoadsTimeline(table[i].timeline)

\* C1: every stored incident has resolved_at present if and only if its status is
\* 'resolved'.
C1_ResolvedAtIffResolved ==
    \A i \in DOMAIN incidents :
        (incidents[i].resolved_at # None) <=> (incidents[i].status = "resolved")

\* C2: resolved_at is set exactly once: it only ever changes from absent to a timestamp,
\* in a step that makes the status 'resolved', and never changes afterwards.
C2_ResolvedAtSetOnce ==
    [][\A i \in DOMAIN incidents :
          incidents'[i].resolved_at # incidents[i].resolved_at
              => /\ incidents[i].resolved_at = None
                 /\ incidents'[i].status = "resolved"]_vars

\* C3: the add_timeline_event calls on an existing incident all return true, and the
\* stored timeline has one entry per call, the k-th with the event and author of the
\* k-th call.
C3_TimelineMatchesCalls ==
    /\ \A i \in DOMAIN incidents :
          /\ Len(Timeline(incidents, i)) = Len(hist[i])
          /\ \A k \in 1..Len(hist[i]) :
                /\ Timeline(incidents, i)[k].event = hist[i][k][1]
                /\ Timeline(incidents, i)[k].author = hist[i][k][2]
    /\ (ret.op = "add_timeline_event" /\ ret.id \in DOMAIN incidents) => ret.ok

C3_Witness ==
    /\ ret.op = "add_timeline_event" /\ ret.ok
    /\ Len(hist[ret.id]) = 2
    /\ hist[ret.id][1] # hist[ret.id][2]

\* C4: in every step the stored timeline of every incident before the step is a prefix
\* of the one after it, and only add_timeline_event on that incident lengthens it.
C4_TimelineAppendOnly ==
    [][\A i \in DOMAIN incidents :
          \/ incidents'[i].timeline = incidents[i].timeline
          \/ LET before == Timeline(incidents, i)
                 after == Timeline(incidents', i)
             IN /\ IsPrefix(before, after)
                /\ Len(after) > Len(before)
                /\ CallOf("add_timeline_event") /\ ret'.id = i]_vars

C4_Witness ==
    /\ ret.op = "add_timeline_event" /\ ret.ok
    /\ Len(Timeline(incidents, ret.id)) = 2
    /\ Cardinality(DOMAIN incidents) = 2

\* C5: update_status with a status outside the five allowed ones returns false and
\* leaves the whole store unchanged, for an existing id and for an unknown one.
C5_InvalidStatusRejected ==
    [][(CallOf("update_status")
          /\ ret'.arg \notin {"new", "investigating", "identified", "monitoring", "resolved"})
        => ~ret'.ok /\ incidents' = incidents /\ alerts' = alerts]_vars

C5_Witness ==
    /\ ret.op = "update_status" /\ ret.arg = "bogus"
    /\ ret.id \in DOMAIN incidents
    /\ incidents[ret.id].status = "investigating"

\* C6: resolve on an existing incident returns true, and get_incident right after it
\* shows status 'resolved' and a resolved_at that is present and not before created_at.
C6_ResolveThenGet ==
    (ret.op = "resolve" /\ ret.id \in DOMAIN incidents)
        => /\ ret.ok
           /\ FetchIncident(incidents, ret.id) # None
           /\ FetchIncident(incidents, ret.id)[1].status = "resolved"
           /\ FetchIncident(incidents, ret.id)[1].resolved_at # None
           /\ FetchIncident(incidents, ret.id)[1].resolved_at[1]
                 >= FetchIncident(incidents, ret.id)[1].created_at

C6_Witness ==
    /\ ret.op = "resolve" /\ ret.ok
    /\ incidents[ret.id].resolved_at[1] > incidents[ret.id].created_at
    /\ incidents[ret.id].assignee = "bob"

\* C7: a completed create_incident or auto_create_from_alert stores an incident with
\* status 'new', no resolved_at, an empty timeline and the on-call person of the day as
\* assignee, and get_incident on its id right afterwards returns exactly the incident
\* the call returned.
C7_CreatedIncident ==
    [][((CallOf("create_incident") \/ CallOf("auto_create_from_alert")) /\ ~ret'.raised)
        => /\ ret'.inc # None
           /\ ret'.inc[1].status = "new"
           /\ ret'.inc[1].resolved_at = None
           /\ ret'.inc[1].timeline = <<>>
           /\ ret'.inc[1].assignee = TEAM[(weekday % Len(TEAM)) + 1]
           /\ FetchIncident(incidents', ret'.inc[1].id) = ret'.inc]_vars

C7_Witness ==
    /\ ret.op = "create_incident" /\ ~ret.raised
    /\ weekday = 1
    /\ ret.inc[1].assignee = "alice"
    /\ FetchIncident(incidents, ret.id) = ret.inc

\* C8: get_active_incidents returns exactly the stored incidents whose status is not
\* 'resolved', each once, by created_at descending; an incident that update_status
\* moved back from 'resolved' is in the list again.
C8_ActiveIncidents ==
    ret.op = "get_active_incidents"
        => /\ { ret.list[k].id : k \in DOMAIN ret.list }
                 = { i \in DOMAIN incidents : incidents[i].status # "resolved" }
           /\ \A j, k \in DOMAIN ret.list :
                 /\ j # k => ret.list[j].id # ret.list[k].id
                 /\ j < k => ret.list[j].created_at >= ret.list[k].created_at
           /\ \A k \in DOMAIN ret.list :
                 Some(ret.list[k]) = FetchIncident(incidents, ret.list[k].id)

C8_Witness ==
    /\ ret.op = "get_active_incidents"
    /\ \E k \in DOMAIN ret.list : ret.list[k].resolved_at # None

\* C9: get_mttr returns the mean of resolved_at - created_at, in minutes, over exactly
\* the stored incidents with status 'resolved' (of the given severity when one is
\* passed), and 0 when there is none.
C9_MttrOverResolved ==
    ret.op = "get_mttr"
        => LET R == { i \in DOMAIN incidents :
                        /\ incidents[i].status = "resolved"
                        /\ (ret.sev = None \/ incidents[i].severity = ret.sev[1]) }
               RECURSIVE Ticks(_)
               Ticks(S) == IF S = {} THEN 0
                           ELSE LET i == CHOOSE j \in S : TRUE
                                IN (incidents[i].resolved_at[1] - incidents[i].created_at)
                                      + Ticks(S \ {i})
           IN IF R = {} THEN ret.mttr[1] = 0
              ELSE /\ \A i \in R : incidents[i].resolved_at # None
                   /\ ret.mttr[1] * (SecondsPerMinute * TicksPerSecond * Cardinality(R))
                         = ret.mttr[2] * Ticks(R)

\* C10: a completed auto_create_from_alert adds exactly one incident, titled 'Alert: '
\* and the message, with the given severity and status 'new', and exactly one alert
\* that carries the arguments and the new incident's id; it returns that incident and
\* changes no incident or alert that was there before.
C10_AutoCreate ==
    [][(CallOf("auto_create_from_alert") /\ ~ret'.raised)
        => \E args \in AlertArgs, a \in DOMAIN alerts' :
              LET inc == ret'.inc[1]
              IN /\ inc.id \notin DOMAIN incidents
                 /\ DOMAIN incidents' = DOMAIN incidents \cup {inc.id}
                 /\ \A i \in DOMAIN incidents : incidents'[i] = incidents[i]
                 /\ FetchIncident(incidents', inc.id) = ret'.inc
                 /\ inc.title = "Alert: " \o args.message
                 /\ inc.severity = args.severity
                 /\ inc.status = "new"
                 /\ a \notin DOMAIN alerts
                 /\ DOMAIN alerts' = DOMAIN alerts \cup {a}
                 /\ \A b \in DOMAIN alerts : alerts'[b] = alerts[b]
                 /\ alerts'[a].incident_id = inc.id
                 /\ alerts'[a].source = args.source
                 /\ alerts'[a].message = args.message
                 /\ alerts'[a].severity = args.severity]_vars

C10_Witness ==
    /\ ret.op = "auto_create_from_alert" /\ ~ret.raised
    /\ Cardinality(DOMAIN incidents) = 2
    /\ Cardinality(DOMAIN alerts) = 2
    /\ \E i \in DOMAIN incidents : incidents[i].status = "resolved"
\* C11: oncall_schedule returns TEAM[d mod 5] on every weekday d of 0..6, whatever is
\* stored and whatever was called before, and changes nothing stored.
C11_OncallByWeekday ==
    [][CallOf("oncall")
        => /\ ret'.arg = <<"alexa", "alice", "octavia", "aria", "shellfish",
                           "alexa", "alice">>[weekday + 1]
           /\ incidents' = incidents /\ alerts' = alerts
           /\ weekday' = weekday /\ clock' = clock]_vars

C11_Witness ==
    /\ ret.op = "oncall" /\ ret.arg = "alice"
    /\ weekday = 6
    /\ \E i \in DOMAIN incidents : incidents[i].assignee = "bob"
\* C12: generate_postmortem returns the empty text for an unknown id and, for a stored
\* one, one line per stored timeline entry, in stored order; it changes nothing stored,
\* and the postmortem of every stored incident is empty after every step.
C12_Postmortem ==
    [][/\ \A i \in DOMAIN incidents' : FetchIncident(incidents', i)[1].postmortem = ""
       /\ CallOf("generate_postmortem")
            => /\ incidents' = incidents /\ alerts' = alerts
               /\ IF ret'.id \notin DOMAIN incidents
                  THEN ret'.text = <<>>
                  ELSE LET IsEntry(line) == line[1] = "- **"
                           lines == SelectSeq(ret'.text, IsEntry)
                           stored == Timeline(incidents, ret'.id)
                       IN /\ Len(lines) = Len(stored)
                          /\ \A k \in 1..Len(stored) :
                                /\ lines[k][2] = stored[k].timestamp
                                /\ lines[k][4] = stored[k].author
                                /\ lines[k][6] = stored[k].event]_vars

C12_Witness ==
    /\ ret.op = "generate_postmortem"
    /\ ret.id \in DOMAIN incidents
    /\ Len(Timeline(incidents, ret.id)) = 2
    /\ Timeline(incidents, ret.id)[1].event # Timeline(incidents, ret.id)[2].event
    /\ Len(ret.text) = 23
\* C13: no two stored incidents share an id (each row is stored under its own id), and
\* a create_incident whose generated id is already stored raises a storage error and
\* leaves both tables unchanged.
C13_UniqueIds ==
    [][/\ \A i \in DOMAIN incidents' :
            /\ incidents'[i].id = i
            /\ FetchIncident(incidents', i)[1].id = i
       /\ (CallOf("create_incident") /\ ret'.id \in DOMAIN incidents)
            => /\ ret'.raised
               /\ ret'.inc = None
               /\ incidents' = incidents /\ alerts' = alerts]_vars

C13_Witness ==
    /\ ret.op = "create_incident" /\ ret.raised
    /\ ret.id \in DOMAIN incidents
    /\ incidents[ret.id].title = "Alert: disk full"
    /\ incidents[ret.id].status = "resolved"
\* C14: for a stored incident in any status, update_status with any of the five
\* statuses returns true and stores that status, also when the incident was resolved;
\* resolve returns true and stores 'resolved' from every status.
C14_AnyTransition ==
    [][/\ (CallOf("update_status") /\ ret'.id \in DOMAIN incidents
             /\ ret'.arg \in {"new", "investigating", "identified", "monitoring", "resolved"})
            => ret'.ok /\ FetchIncident(incidents', ret'.id)[1].status = ret'.arg
       /\ (CallOf("resolve") /\ ret'.id \in DOMAIN incidents)
            => ret'.ok /\ FetchIncident(incidents', ret'.id)[1].status = "resolved"]_vars

C14_Witness ==
    /\ ret.op = "update_status" /\ ret.ok /\ ret.arg = "identified"
    /\ incidents[ret.id].status = "identified"
    /\ incidents[ret.id].resolved_at # None
\* C15: when a call has ended, by returning or by raising, none of the connections
\* it opened is still open.
C15_ConnectionsReleased == ret.open = 0
\* C16: an interleaved add_timeline_event returns true and stores the timeline it read
\* plus its own entry, whatever was stored since it read (last writer wins), so two
\* interleaved calls can both return true and leave one event, and a later write can
\* leave the timeline shorter than it was.
C16_LastWriterWins ==
    [][\A p \in DOMAIN pending :
          p \notin DOMAIN pending'
            => /\ ret'.op = "add_timeline_event" /\ ret'.ok
               /\ Timeline(incidents', pending[p].id) =
                     Append(JsonLoadsTimeline(pending[p].text),
                            [timestamp |-> clock, event |-> pending[p].event,
                             author |-> pending[p].author])]_vars

\* two calls read the empty timeline and both returned true, leaving one event; a
\* third call made the timeline two entries long and a fourth, which had read the
\* empty timeline, made it one entry long again
C16_Witness ==
    \E i \in DOMAIN incidents :
        /\ pending = <<>>
        /\ Len(hist[i]) = 4
        /\ hist[i][1][1] # hist[i][2][1]
        /\ <<hist[i][1][3], hist[i][2][3], hist[i][3][3], hist[i][4][3]>> = <<1, 1, 2, 1>>
        /\ Len(Timeline(incidents, i)) = 1
        /\ Timeline(incidents, i)[1].event = hist[i][4][1]
\* C17: for an id that is not stored, assign, update_status with a valid status,
\* resolve and add_timeline_event return false and get_incident returns None, and the
\* call leaves both tables as they were.
C17_UnknownId ==
    [][(/\ calls' # calls
        /\ ret'.id \notin DOMAIN incidents
        /\ \/ ret'.op \in {"assign", "resolve", "add_timeline_event", "get_incident"}
           \/ ret'.op = "update_status" /\ IsValidStatus(ret'.arg))
          => /\ ~ret'.ok
             /\ ~ret'.raised
             /\ ret'.inc = None
             /\ incidents' = incidents
             /\ alerts' = alerts]_vars

C17_Witness ==
    /\ ret.op = "resolve" /\ ~ret.ok
    /\ ret.id \notin DOMAIN incidents
    /\ incidents # <<>>
    /\ \A i \in DOMAIN incidents : incidents[i].status = "new" /\ incidents[i].resolved_at = None
\* C18: no step changes the id, title, severity, services or created_at of a stored
\* incident.
C18_CreationFieldsFrozen ==
    [][\A i \in DOMAIN incidents :
          /\ i \in DOMAIN incidents'
          /\ incidents'[i].id = incidents[i].id
          /\ incidents'[i].title = incidents[i].title
          /\ incidents'[i].severity = incidents[i].severity
          /\ incidents'[i].services = incidents[i].services
          /\ JsonLoadsServices(incidents'[i].services) = JsonLoadsServices(incidents[i].services)
          /\ incidents'[i].created_at = incidents[i].created_at]_vars

\* an incident that was assigned, given a timeline entry and resolved after its creation
C18_Witness ==
    /\ ret.op = "resolve" /\ ret.ok
    /\ incidents[ret.id].assignee = "bob"
    /\ Len(Timeline(incidents, ret.id)) = 1
    /\ incidents[ret.id].resolved_at = Some(MaxClock)
    /\ incidents[ret.id].created_at = 0
    /\ incidents[ret.id].title = "db down"
    /\ JsonLoadsServices(incidents[ret.id].services) = <<"api", "db">>
\* C19: the set of stored incident ids only grows, a stored alert never changes, and
\* after every step each alert's incident_id is the id of a stored incident.
C19_NoDeleteAlertsFrozen ==
    [][/\ DOMAIN incidents \subseteq DOMAIN incidents'
       /\ \A a \in DOMAIN alerts : a \in DOMAIN alerts' /\ alerts'[a] = alerts[a]
       /\ \A a \in DOMAIN alerts' : alerts'[a].incident_id \in DOMAIN incidents']_vars

\* two alerts with their two incidents, one of them resolved since
C19_Witness ==
    /\ Cardinality(DOMAIN alerts) = 2
    /\ Cardinality({alerts[a].incident_id : a \in DOMAIN alerts}) = 2
    /\ ret.op = "resolve" /\ ret.ok
    /\ \E a \in DOMAIN alerts : alerts[a].incident_id = ret.id
\* C20: on a stored id, assign changes only assignee, update_status only status,
\* add_timeline_event only timeline and resolve only status and resolved_at, whatever
\* the notes; the other fields of the row, the other rows and the alerts stay as they
\* were.
C20_OwnFieldsOnly ==
    [][(calls' # calls /\ ret'.id \in DOMAIN incidents
          /\ ret'.op \in {"assign", "update_status", "add_timeline_event", "resolve"})
         => LET own == CASE ret'.op = "assign" -> {"assignee"}
                         [] ret'.op = "update_status" -> {"status"}
                         [] ret'.op = "add_timeline_event" -> {"timeline"}
                         [] ret'.op = "resolve" -> {"status", "resolved_at"}
            IN /\ alerts' = alerts
               /\ DOMAIN incidents' = DOMAIN incidents
               /\ \A i \in DOMAIN incidents :
                     \A f \in DOMAIN incidents[i] :
                        (i # ret'.id \/ f \notin own) => incidents'[i][f] = incidents[i][f]
               /\ ret'.op = "resolve"
                    => incidents'[ret'.id] = [incidents[ret'.id] EXCEPT
                                                !.status = "resolved",
                                                !.resolved_at = Some(clock)]]_vars

\* two stored incidents and an alert; the last call assigned one of the incidents
C20_Witness ==
    /\ ret.op = "assign" /\ ret.ok
    /\ Cardinality(DOMAIN incidents) = 2
    /\ alerts # <<>>
    /\ incidents[ret.id].assignee = "bob"
    /\ \E i \in DOMAIN incidents : incidents[i].assignee # "bob"
====
